---- MODULE Spec2Model ----
(***************************************************************************)
(* Model of package fedora (disadis): the remote Fedora client, the        *)
(* in-memory TestFedora store, DsInfo.Version and NewRemote.               *)
(*                                                                         *)
(* Go strings are modelled as sequences of one-character strings, so that  *)
(* concatenation, indexing and slicing behave as in the source.  Byte      *)
(* slices are sequences of numbers.                                        *)
(***************************************************************************)
EXTENDS Integers, Sequences, FiniteSets, TLC

VARIABLES data, setLog, lastSet, nsets, rf, ret

vars == <<data, setLog, lastSet, nsets, rf, ret>>

-----------------------------------------------------------------------------
(* Strings *)

Empty == <<>>

RECURSIVE Strs(_, _)
\* all strings over chars of length exactly n
Strs(chars, n) ==
  IF n = 0 THEN {Empty}
  ELSE {<<c>> \o s : c \in chars, s \in Strs(chars, n - 1)}

\* all strings over chars of length 0..n
StrsUpTo(chars, n) == UNION {Strs(chars, k) : k \in 0..n}

DigitChars == <<"0", "1", "2", "3", "4", "5", "6", "7", "8", "9">>

DigitVal(c) == (CHOOSE i \in 1..10 : DigitChars[i] = c) - 1

IsDigit(c) == \E i \in 1..10 : DigitChars[i] = c

RECURSIVE Itoa(_)
\* fmt.Sprintf("%d", n) for n >= 0
Itoa(n) ==
  IF n < 10 THEN <<DigitChars[n + 1]>>
  ELSE Itoa(n \div 10) \o <<DigitChars[(n % 10) + 1]>>

\* strings.LastIndex(s, "."), 0-based, -1 when absent
LastIndex(s, c) ==
  IF \E i \in 1..Len(s) : s[i] = c
  THEN (CHOOSE i \in 1..Len(s) : s[i] = c /\ \A j \in (i + 1)..Len(s) : s[j] # c) - 1
  ELSE -1

RECURSIVE ParseDigits(_, _)
\* the accumulation loop of strconv.Atoi: n = n*10 + digit
ParseDigits(s, acc) ==
  IF s = Empty THEN acc
  ELSE ParseDigits(Tail(s), acc * 10 + DigitVal(Head(s)))

\* strconv.Atoi: optional sign, then one or more decimal digits (the range
\* error of a numeral beyond 64 bits lies outside the lengths explored)
Atoi(s) ==
  LET body == IF s # Empty /\ Head(s) \in {"+", "-"} THEN Tail(s) ELSE s
      neg  == s # Empty /\ Head(s) = "-"
  IN  IF body = Empty \/ \E i \in 1..Len(body) : ~IsDigit(body[i])
      THEN [ok |-> FALSE, n |-> 0]
      ELSE [ok |-> TRUE,
            n  |-> IF neg THEN 0 - ParseDigits(body, 0) ELSE ParseDigits(body, 0)]

-----------------------------------------------------------------------------
(* Model types *)

ErrNil           == [kind |-> "nil", code |-> 0]
ErrNotFound      == [kind |-> "ErrNotFound", code |-> 0]
ErrNotAuthorized == [kind |-> "ErrNotAuthorized", code |-> 0]

ZeroContentInfo ==
  [Type |-> Empty, Length |-> Empty, Disposition |-> Empty,
   MD5 |-> Empty, SHA256 |-> Empty]

ZeroDsInfo ==
  [Label |-> Empty, VersionID |-> Empty, State |-> Empty, Checksum |-> Empty,
   MIMEType |-> Empty, Location |-> Empty, LocationType |-> Empty, Size |-> Empty]

DsFields == DOMAIN ZeroDsInfo

NilStream == [nil |-> TRUE, bytes |-> <<>>]

\* Version splitting at the first "." instead of the last
Version_FirstDot(info) ==
  LET v == info.VersionID
      i == IF \E k \in 1..Len(v) : v[k] = "."
           THEN (CHOOSE k \in 1..Len(v) : v[k] = "." /\ \A j \in 1..(k - 1) : v[j] # ".") - 1
           ELSE -1
  IN  IF i = -1 THEN -1
      ELSE LET r == Atoi(SubSeq(v, i + 2, Len(v)))
           IN  IF ~r.ok THEN -1 ELSE r.n

\* DsInfo.Version
Version(info) ==
  LET i == LastIndex(info.VersionID, ".")
  IN  IF i = -1 THEN -1
      ELSE LET r == Atoi(SubSeq(info.VersionID, i + 2, Len(info.VersionID)))
           IN  IF ~r.ok THEN -1 ELSE r.n

-----------------------------------------------------------------------------
(* The record of the most recent call and what it returned *)

NoArg == [info |-> ZeroDsInfo, value |-> <<>>]

NoResp ==
  [neterr |-> FALSE, status |-> 0, header |-> ZeroContentInfo,
   body |-> <<>>, elems |-> <<>>, wellFormed |-> TRUE]

NoCall ==
  [op |-> "none", id |-> Empty, dsname |-> Empty, arg |-> NoArg,
   path |-> Empty, resp |-> NoResp, closes |-> 0,
   stream |-> NilStream, ci |-> ZeroContentInfo, info |-> ZeroDsInfo,
   err |-> ErrNil, version |-> 0, ns |-> Empty, panicked |-> FALSE]

NoSet == [called |-> FALSE, id |-> Empty, dsname |-> Empty, arg |-> NoArg]

NoRemote == [made |-> FALSE, hostpath |-> Empty, namespace |-> Empty]

-----------------------------------------------------------------------------
(* TestFedora, the in-memory store *)

MaxSets == 2

\* object ids and datastream names callers pass; both may contain '/' and '.'
Ids == {<<"a">>, <<"a", "/", "b">>}

DsNames == {<<"c", ".", "d">>, <<"b", "/", "c", ".", "d">>}

\* byte slices callers pass to Set: lengths 0 and 12
Contents == {<<>>, <<1, 2, 3, 4, 5, 6, 7, 8, 9, 10, 11, 12>>}

FullInfo ==
  [Label |-> <<"l">>, VersionID |-> <<"v", ".", "7">>, State |-> <<"D">>,
   Checksum |-> <<"k">>, MIMEType |-> <<"m">>, Location |-> <<"u">>,
   LocationType |-> <<"U", "R", "L">>, Size |-> <<"9">>]

\* infos a caller passes to Set: nothing supplied, everything supplied, only
\* the version id supplied
SetInfos ==
  {ZeroDsInfo, FullInfo, [ZeroDsInfo EXCEPT !.VersionID = FullInfo.VersionID]}

Key(id, dsname) == id \o <<"/">> \o dsname

\* Backfill with the default location built from the version id as passed
Backfill_LocationFirst(id, dsname, info, value) ==
  [info EXCEPT
     !.State = IF @ = Empty THEN <<"A">> ELSE @,
     !.VersionID = IF @ = Empty THEN dsname \o <<".", "0">> ELSE @,
     !.Location = IF @ = Empty
                  THEN id \o <<"+">> \o dsname \o <<"+">> \o info.VersionID ELSE @,
     !.LocationType = IF @ = Empty
                      THEN <<"I", "N", "T", "E", "R", "N", "A", "L", "_", "I", "D">>
                      ELSE @,
     !.Size = IF @ = Empty THEN Itoa(Len(value)) ELSE @]

\* the info Set stores: the argument with its empty fields backfilled
Backfill(id, dsname, info, value) ==
  LET i1 == IF info.State = Empty THEN [info EXCEPT !.State = <<"A">>] ELSE info
      i2 == IF i1.VersionID = Empty
            THEN [i1 EXCEPT !.VersionID = dsname \o <<".", "0">>] ELSE i1
      i3 == IF i2.Location = Empty
            THEN [i2 EXCEPT !.Location =
                    id \o <<"+">> \o dsname \o <<"+">> \o i2.VersionID]
            ELSE i2
      i4 == IF i3.LocationType = Empty
            THEN [i3 EXCEPT !.LocationType =
                    <<"I", "N", "T", "E", "R", "N", "A", "L", "_", "I", "D">>]
            ELSE i3
      i5 == IF i4.Size = Empty THEN [i4 EXCEPT !.Size = Itoa(Len(value))] ELSE i4
  IN  i5

\* tf.data[key] = dsPair{info, value}
Store(d, key, pair) ==
  [k \in (DOMAIN d) \cup {key} |-> IF k = key THEN pair ELSE d[k]]

Set(id, dsname, info, value) ==
  /\ nsets < MaxSets
  /\ data' = Store(data, Key(id, dsname),
                   [info |-> Backfill(id, dsname, info, value), content |-> value])
  /\ setLog' = Store(setLog, <<id, dsname>>, [info |-> info, value |-> value])
  /\ lastSet' = [called |-> TRUE, id |-> id, dsname |-> dsname,
                 arg |-> [info |-> info, value |-> value]]
  /\ nsets' = nsets + 1
  /\ ret' = [NoCall EXCEPT !.op = "Set", !.id = id, !.dsname = dsname,
                           !.arg = [info |-> info, value |-> value]]
  /\ UNCHANGED rf

TextPlain == <<"t", "e", "x", "t", "/", "p", "l", "a", "i", "n">>

\* TFContent with the length taken from the content instead of the stored size
TFContent_LengthOfContent(d, id, dsname) ==
  LET key == Key(id, dsname)
  IN  IF key \notin DOMAIN d
      THEN [stream |-> NilStream, ci |-> ZeroContentInfo, err |-> ErrNotFound]
      ELSE [stream |-> [nil |-> FALSE, bytes |-> d[key].content],
            ci     |-> [ZeroContentInfo EXCEPT !.Type = TextPlain,
                                               !.Length = Itoa(Len(d[key].content))],
            err    |-> ErrNil]

\* what TestFedora.GetDatastream returns
TFContent(d, id, dsname) ==
  LET key == Key(id, dsname)
  IN  IF key \notin DOMAIN d
      THEN [stream |-> NilStream, ci |-> ZeroContentInfo, err |-> ErrNotFound]
      ELSE [stream |-> [nil |-> FALSE, bytes |-> d[key].content],
            ci     |-> [ZeroContentInfo EXCEPT !.Type = TextPlain,
                                               !.Length = d[key].info.Size],
            err    |-> ErrNil]

\* what TestFedora.GetDatastreamInfo returns
TFInfo(d, id, dsname) ==
  LET key == Key(id, dsname)
  IN  IF key \notin DOMAIN d
      THEN [info |-> ZeroDsInfo, err |-> ErrNotFound]
      ELSE [info |-> d[key].info, err |-> ErrNil]

TF_GetDatastream(id, dsname) ==
  LET r == TFContent(data, id, dsname)
  IN  /\ ret' = [NoCall EXCEPT !.op = "TF.GetDatastream", !.id = id,
                               !.dsname = dsname, !.stream = r.stream,
                               !.ci = r.ci, !.err = r.err]
      /\ UNCHANGED <<data, setLog, lastSet, nsets, rf>>

TF_GetDatastreamInfo(id, dsname) ==
  LET r == TFInfo(data, id, dsname)
  IN  /\ ret' = [NoCall EXCEPT !.op = "TF.GetDatastreamInfo", !.id = id,
                               !.dsname = dsname, !.info = r.info, !.err = r.err]
      /\ UNCHANGED <<data, setLog, lastSet, nsets, rf>>

\* NewTestFedora: an empty store
Init ==
  /\ data = <<>>
  /\ setLog = <<>>
  /\ lastSet = NoSet
  /\ nsets = 0
  /\ rf = NoRemote
  /\ ret = NoCall

Next ==
  \/ \E id \in Ids, dsname \in DsNames, info \in SetInfos, value \in Contents :
       Set(id, dsname, info, value)
  \/ \E id \in Ids, dsname \in DsNames : TF_GetDatastream(id, dsname)
  \/ \E id \in Ids, dsname \in DsNames : TF_GetDatastreamInfo(id, dsname)

Spec == Init /\ [][Next]_vars

-----------------------------------------------------------------------------
(* remoteFedora, the HTTP client *)

MaxPathLen == 3

MaxNsLen == 2

MaxElems == 2

PathChars == {"h", "/"}

NsChars == {"t", ":"}

\* NewRemote: indexing the last byte of an empty fedoraPath panics
NewRemoteValue(fedoraPath, namespace) ==
  IF Len(fedoraPath) = 0
  THEN [panicked |-> TRUE, rf |-> NoRemote]
  ELSE [panicked |-> FALSE,
        rf |-> [made |-> TRUE,
                hostpath |-> IF fedoraPath[Len(fedoraPath)] # "/"
                             THEN fedoraPath \o <<"/">> ELSE fedoraPath,
                namespace |-> namespace]]

NewRemote(fedoraPath, namespace) ==
  LET r == NewRemoteValue(fedoraPath, namespace)
  IN  /\ rf' = r.rf
      /\ ret' = [NoCall EXCEPT !.op = "NewRemote", !.path = fedoraPath,
                               !.ns = namespace, !.panicked = r.panicked]
      /\ UNCHANGED <<data, setLog, lastSet, nsets>>

\* the clients the remote calls are made on
RemoteClients == {NewRemoteValue(<<"h">>, <<"t", ":">>).rf}

RemoteIds == {<<"a">>}

RemoteDsNames == {<<"c">>}

Statuses == {200, 204, 401, 404, 500}

ErrTransport == [kind |-> "transport", code |-> 0]

ErrXML == [kind |-> "xml", code |-> 0]

\* fmt.Errorf("Received status %d from fedora", r.StatusCode)
ErrStatus(code) == [kind |-> "status", code |-> code]

\* the error a non-200 status maps to
StatusError(status) ==
  CASE status = 404 -> ErrNotFound
    [] status = 401 -> ErrNotAuthorized
    [] OTHER -> ErrStatus(status)

\* response headers Content-Type, Content-Length, Content-Disposition,
\* X-Content-Md5, X-Content-Sha256; Header.Get gives "" for an absent one
FullHeader ==
  [Type |-> <<"m">>, Length |-> <<"1">>, Disposition |-> <<"f">>,
   MD5 |-> <<"5">>, SHA256 |-> <<"2">>]

Headers ==
  {ZeroContentInfo, FullHeader,
   [FullHeader EXCEPT !.MD5 = Empty, !.SHA256 = Empty]}

Bodies == {<<>>, <<1, 2>>}

ObjectsPart == <<"o", "b", "j", "e", "c", "t", "s", "/">>

DatastreamsPart == <<"/", "d", "a", "t", "a", "s", "t", "r", "e", "a", "m", "s", "/">>

ContentPart == <<"/", "c", "o", "n", "t", "e", "n", "t">>

FormatPart == <<"?", "f", "o", "r", "m", "a", "t", "=", "x", "m", "l">>

None == <<"n", "o", "n", "e">>

\* the xml tags of DsInfo's fields
XmlName ==
  [Label |-> "dsLabel", VersionID |-> "dsVersionID", State |-> "dsState",
   Checksum |-> "dsChecksum", MIMEType |-> "dsMIME", Location |-> "dsLocation",
   LocationType |-> "dsLocationType", Size |-> "dsSize"]

\* child elements a metadata document may hold: known elements, the checksum
\* with and without the sentinel text, and an element DsInfo has no field for
Elems ==
  {[name |-> XmlName[f], text |-> <<"x">>] :
     f \in {"Label", "VersionID", "Checksum", "Location", "Size"}}
    \cup {[name |-> "dsChecksum", text |-> None], [name |-> "other", text |-> <<"x">>]}

RECURSIVE ElemSeqs(_)
ElemSeqs(n) ==
  IF n = 0 THEN {<<>>}
  ELSE {<<e>> \o s : e \in Elems, s \in ElemSeqs(n - 1)}

\* a document: the elements read before the end of the document or, when it
\* is not well formed, before the syntax error
Docs == {[elems |-> es, wellFormed |-> w] :
           es \in UNION {ElemSeqs(k) : k \in 0..MaxElems}, w \in BOOLEAN}

ErrorPage == [elems |-> <<[name |-> "dsLabel", text |-> <<"x">>]>>, wellFormed |-> TRUE]

ContentResponses ==
  {[NoResp EXCEPT !.neterr = TRUE]}
    \cup {[NoResp EXCEPT !.status = s, !.header = h, !.body = b] :
            s \in Statuses, h \in Headers, b \in Bodies}

InfoResponses ==
  {[NoResp EXCEPT !.neterr = TRUE]}
    \cup {[NoResp EXCEPT !.status = 200, !.elems = d.elems, !.wellFormed = d.wellFormed] :
            d \in Docs}
    \cup {[NoResp EXCEPT !.status = s, !.elems = ErrorPage.elems] :
            s \in Statuses \ {200}}

\* the result of remoteFedora.GetDatastream when http.Get answers resp
RFContent(c, id, dsname, resp) ==
  LET path == c.hostpath \o ObjectsPart \o c.namespace \o id
                \o DatastreamsPart \o dsname \o ContentPart
      none == [path |-> path, closes |-> 0, stream |-> NilStream,
               ci |-> ZeroContentInfo, err |-> ErrNil]
  IN  IF resp.neterr THEN [none EXCEPT !.err = ErrTransport]
      ELSE IF resp.status # 200
      THEN [none EXCEPT !.closes = 1, !.err = StatusError(resp.status)]
      ELSE [none EXCEPT !.stream = [nil |-> FALSE, bytes |-> resp.body],
                        !.ci = [Type |-> resp.header.Type,
                                Length |-> resp.header.Length,
                                Disposition |-> resp.header.Disposition,
                                MD5 |-> resp.header.MD5,
                                SHA256 |-> resp.header.SHA256]]

\* the field of DsInfo an element is unmarshalled into, if any
FieldOf(name) ==
  IF \E f \in DsFields : XmlName[f] = name
  THEN {CHOOSE f \in DsFields : XmlName[f] = name}
  ELSE {}

RECURSIVE Decode(_, _)
\* xml.Decoder.Decode: each element read is stored into its field as it is
\* read; unknown elements are skipped
Decode(elems, info) ==
  IF elems = <<>> THEN info
  ELSE LET e  == Head(elems)
           fs == FieldOf(e.name)
       IN  Decode(Tail(elems),
                  IF fs = {} THEN info
                  ELSE [f \in DsFields |-> IF f \in fs THEN e.text ELSE info[f]])

\* RFInfo without the "none" normalisation
RFInfo_KeepNone(c, id, dsname, resp) ==
  LET path == c.hostpath \o ObjectsPart \o c.namespace \o id
                \o DatastreamsPart \o dsname \o FormatPart
      none == [path |-> path, closes |-> 0, info |-> ZeroDsInfo, err |-> ErrNil]
  IN  IF resp.neterr THEN [none EXCEPT !.err = ErrTransport]
      ELSE IF resp.status # 200
      THEN [none EXCEPT !.closes = 1, !.err = StatusError(resp.status)]
      ELSE [none EXCEPT !.closes = 1, !.info = Decode(resp.elems, ZeroDsInfo),
                        !.err = IF resp.wellFormed THEN ErrNil ELSE ErrXML]

\* RFInfo without the Close after decoding
RFInfo_NoCloseAfterDecode(c, id, dsname, resp) ==
  [RFInfo_KeepNone(c, id, dsname, resp) EXCEPT
     !.closes = IF ~resp.neterr /\ resp.status # 200 THEN 1 ELSE 0]

\* the result of remoteFedora.GetDatastreamInfo when http.Get answers resp
RFInfo(c, id, dsname, resp) ==
  LET path == c.hostpath \o ObjectsPart \o c.namespace \o id
                \o DatastreamsPart \o dsname \o FormatPart
      none == [path |-> path, closes |-> 0, info |-> ZeroDsInfo, err |-> ErrNil]
  IN  IF resp.neterr THEN [none EXCEPT !.err = ErrTransport]
      ELSE IF resp.status # 200
      THEN [none EXCEPT !.closes = 1, !.err = StatusError(resp.status)]
      ELSE LET info == Decode(resp.elems, ZeroDsInfo)
               err  == IF resp.wellFormed THEN ErrNil ELSE ErrXML
           IN  [none EXCEPT !.closes = 1,
                            !.info = IF info.Checksum = None
                                     THEN [info EXCEPT !.Checksum = Empty]
                                     ELSE info,
                            !.err = err]

RF_GetDatastream(id, dsname, resp) ==
  LET r == RFContent(rf, id, dsname, resp)
  IN  /\ rf.made
      /\ ret' = [NoCall EXCEPT !.op = "RF.GetDatastream", !.id = id,
                               !.dsname = dsname, !.path = r.path, !.resp = resp,
                               !.closes = r.closes, !.stream = r.stream,
                               !.ci = r.ci, !.err = r.err]
      /\ UNCHANGED <<data, setLog, lastSet, nsets, rf>>

RF_GetDatastreamInfo(id, dsname, resp) ==
  LET r == RFInfo(rf, id, dsname, resp)
  IN  /\ rf.made
      /\ ret' = [NoCall EXCEPT !.op = "RF.GetDatastreamInfo", !.id = id,
                               !.dsname = dsname, !.path = r.path, !.resp = resp,
                               !.closes = r.closes, !.info = r.info, !.err = r.err]
      /\ UNCHANGED <<data, setLog, lastSet, nsets, rf>>

RemoteInit ==
  /\ data = <<>>
  /\ setLog = <<>>
  /\ lastSet = NoSet
  /\ nsets = 0
  /\ rf \in RemoteClients
  /\ ret = NoCall

RemoteNext ==
  \/ \E id \in RemoteIds, dsname \in RemoteDsNames, resp \in ContentResponses :
       RF_GetDatastream(id, dsname, resp)
  \/ \E id \in RemoteIds, dsname \in RemoteDsNames, resp \in InfoResponses :
       RF_GetDatastreamInfo(id, dsname, resp)

RemoteSpec == RemoteInit /\ [][RemoteNext]_vars

NewRemoteNext ==
  \E fedoraPath \in StrsUpTo(PathChars, MaxPathLen),
     namespace \in StrsUpTo(NsChars, MaxNsLen) :
       NewRemote(fedoraPath, namespace)

NewRemoteSpec == Init /\ [][NewRemoteNext]_vars

-----------------------------------------------------------------------------
(* DsInfo.Version applied to arbitrary version ids *)

MaxVersionIDLen == 3

VersionChars == {"c", ".", "1", "7", "-", "+"}

CallVersion(versionID) ==
  LET info == [ZeroDsInfo EXCEPT !.VersionID = versionID]
  IN  /\ ret' = [NoCall EXCEPT !.op = "Version", !.info = info,
                               !.version = Version(info)]
      /\ UNCHANGED <<data, setLog, lastSet, nsets, rf>>

VersionNext ==
  \E versionID \in StrsUpTo(VersionChars, MaxVersionIDLen) : CallVersion(versionID)

VersionSpec == Init /\ [][VersionNext]_vars

-----------------------------------------------------------------------------
(* Properties of the in-memory store *)

RECURSIVE DecValue(_)
\* the number a string of decimal digits denotes: last digit + 10 * the rest
DecValue(s) ==
  IF s = Empty THEN 0
  ELSE DigitVal(s[Len(s)]) + 10 * DecValue(SubSeq(s, 1, Len(s) - 1))

\* s is the decimal numeral of n: digits only, no leading zero, value n
IsDecimalOf(s, n) ==
  /\ s # Empty
  /\ \A i \in 1..Len(s) : IsDigit(s[i])
  /\ Len(s) > 1 => s[1] # "0"
  /\ DecValue(s) = n

\* the most recent Set was Set(ret.id, ret.dsname, ...) and ret is a read of it
ReadsLastSet(op) ==
  /\ ret.op = op
  /\ lastSet.called
  /\ lastSet.id = ret.id
  /\ lastSet.dsname = ret.dsname

\* C2 as stated: Set(id, name, info, bytes) followed by GetContent(id, name)
\* returns a nil error, the bytes, and a length that is the decimal string of
\* len(bytes), for every info.
C2_SetThenGetContentLength ==
  ReadsLastSet("TF.GetDatastream") =>
    /\ ret.err = ErrNil
    /\ ~ret.stream.nil
    /\ ret.stream.bytes = lastSet.arg.value
    /\ IsDecimalOf(ret.ci.Length, Len(lastSet.arg.value))

\* C2 amended: Set(id, name, info, bytes) followed by GetContent(id, name)
\* returns a nil error, a stream holding exactly bytes, and a ContentInfo whose
\* length is the decimal string of len(bytes) when info's size was empty and
\* the caller-supplied size otherwise.
C2_SetThenGetContentStoredSize ==
  ReadsLastSet("TF.GetDatastream") =>
    /\ ret.err = ErrNil
    /\ ~ret.stream.nil
    /\ ret.stream.bytes = lastSet.arg.value
    /\ IF lastSet.arg.info.Size = Empty
       THEN IsDecimalOf(ret.ci.Length, Len(lastSet.arg.value))
       ELSE ret.ci.Length = lastSet.arg.info.Size

C2_Witness ==
  /\ ReadsLastSet("TF.GetDatastream")
  /\ lastSet.arg.info.Size # Empty
  /\ Len(lastSet.arg.value) = 12
  /\ nsets = 2

\* C3: a read of a pair (id, name) that was never passed to Set returns
\* ErrNotFound with a nil stream, an empty ContentInfo and an empty DsInfo.
C3_UnsetPairNotFound ==
  (/\ ret.op \in {"TF.GetDatastream", "TF.GetDatastreamInfo"}
   /\ <<ret.id, ret.dsname>> \notin DOMAIN setLog)
  => /\ ret.err = ErrNotFound
     /\ ret.stream = NilStream
     /\ ret.ci = ZeroContentInfo
     /\ ret.info = ZeroDsInfo

\* C6: a read of a pair (id, name) reflects the most recent Set of exactly that
\* pair: its info after backfilling and its content.
C6_ReadReflectsLastSetOfPair ==
  LET p == <<ret.id, ret.dsname>>
  IN  /\ (ret.op = "TF.GetDatastreamInfo" /\ p \in DOMAIN setLog) =>
           /\ ret.err = ErrNil
           /\ ret.info = Backfill(ret.id, ret.dsname, setLog[p].info, setLog[p].value)
      /\ (ret.op = "TF.GetDatastream" /\ p \in DOMAIN setLog) =>
           /\ ret.err = ErrNil
           /\ ret.stream.bytes = setLog[p].value

\* C8: Set(id, name, info, content) followed by GetMetadata(id, name) returns
\* info with every empty one of state, versionId, location, locationType and
\* size replaced by its default and every supplied field unchanged; with the
\* versionId unset the result has versionId = name + ".0" and Version() = 0.
C8_SetThenGetMetadataBackfilled ==
  ReadsLastSet("TF.GetDatastreamInfo") =>
    LET a == lastSet.arg.info
        r == ret.info
    IN  /\ ret.err = ErrNil
        /\ r.State = IF a.State = Empty THEN <<"A">> ELSE a.State
        /\ r.VersionID = IF a.VersionID = Empty
                         THEN ret.dsname \o <<".", "0">> ELSE a.VersionID
        /\ r.Location = IF a.Location = Empty
                        THEN ret.id \o <<"+">> \o ret.dsname \o <<"+">> \o r.VersionID
                        ELSE a.Location
        /\ r.LocationType =
             IF a.LocationType = Empty
             THEN <<"I", "N", "T", "E", "R", "N", "A", "L", "_", "I", "D">>
             ELSE a.LocationType
        /\ IF a.Size = Empty
           THEN IsDecimalOf(r.Size, Len(lastSet.arg.value))
           ELSE r.Size = a.Size
        /\ r.Label = a.Label
        /\ r.Checksum = a.Checksum
        /\ r.MIMEType = a.MIMEType
        /\ a.VersionID = Empty => Version(r) = 0

C8_Witness ==
  /\ ReadsLastSet("TF.GetDatastreamInfo")
  /\ lastSet.arg.info = ZeroDsInfo
  /\ \E i \in 1..Len(ret.dsname) : ret.dsname[i] = "."
  /\ Len(lastSet.arg.value) = 12
  /\ ret.info.Size = <<"1", "2">>

-----------------------------------------------------------------------------
(* Properties of the remote client *)

RemoteOps == {"RF.GetDatastream", "RF.GetDatastreamInfo"}

\* C1: whenever a call returns a non-nil error its results are zero values:
\* nil stream, empty ContentInfo, empty DsInfo.
C1_ErrorMeansZeroResults ==
  ret.err # ErrNil =>
    /\ ret.stream = NilStream
    /\ ret.ci = ZeroContentInfo
    /\ ret.info = ZeroDsInfo

\* C4: a 2xx status gives a nil error, 404 gives ErrNotFound, 401 gives
\* ErrNotAuthorized, any other status gives an error carrying the status, and
\* in the error cases no stream is returned.  (A metadata document that does
\* not decode is left aside: the claim is about the status.)
C4_StatusDecidesOutcome ==
  (ret.op \in RemoteOps /\ ~ret.resp.neterr /\ ret.resp.wellFormed) =>
    LET st == ret.resp.status
    IN  /\ st \in 200..299 => ret.err = ErrNil
        /\ st = 404 => ret.err = ErrNotFound
        /\ st = 401 => ret.err = ErrNotAuthorized
        /\ st \notin (200..299) \cup {401, 404} => ret.err = ErrStatus(st)
        /\ ret.err # ErrNil => ret.stream.nil

\* C5: when the request produced a response, the client closes the body
\* exactly once on every path that does not hand it to the caller, and not at
\* all when GetDatastream succeeds and returns the open body.
C5_BodyClosedOnceUnlessReturned ==
  (ret.op \in RemoteOps /\ ~ret.resp.neterr) =>
    IF ret.op = "RF.GetDatastream" /\ ret.err = ErrNil
    THEN /\ ret.closes = 0
         /\ ~ret.stream.nil
         /\ ret.stream.bytes = ret.resp.body
    ELSE /\ ret.closes = 1
         /\ ret.stream.nil

C5_Witness ==
  /\ ret.op = "RF.GetDatastreamInfo"
  /\ ret.resp.status = 200
  /\ ~ret.resp.wellFormed
  /\ ret.resp.elems # <<>>
  /\ ret.closes = 1

\* the text of the last element called name among those read, "" if none
LastText(elems, name) ==
  IF \E i \in 1..Len(elems) : elems[i].name = name
  THEN elems[CHOOSE i \in 1..Len(elems) :
               /\ elems[i].name = name
               /\ \A j \in (i + 1)..Len(elems) : elems[j].name # name].text
  ELSE Empty

\* C10: a DsInfo returned by the remote GetDatastreamInfo never has the
\* checksum "none": a decoded dsChecksum of "none" is returned as "", any
\* other value unchanged, and every other field is returned as decoded.
C10_ChecksumNoneNormalized ==
  ret.op = "RF.GetDatastreamInfo" =>
    /\ ret.info.Checksum # None
    /\ (~ret.resp.neterr /\ ret.resp.status = 200) =>
         \A f \in DsFields :
           LET raw == LastText(ret.resp.elems, XmlName[f])
           IN  ret.info[f] = IF f = "Checksum" /\ raw = None THEN Empty ELSE raw

C10_Witness ==
  /\ ret.op = "RF.GetDatastreamInfo"
  /\ ret.resp.status = 200
  /\ ret.resp.wellFormed
  /\ LastText(ret.resp.elems, "dsChecksum") = None
  /\ ret.info.Checksum = Empty
  /\ ret.info.Label # Empty

-----------------------------------------------------------------------------
(* Properties of NewRemote and Version *)

\* C9: NewRemote accepts every base URL and stores a base path ending in "/":
\* unchanged when it already ends in "/", with one "/" appended otherwise
\* (the empty string included); the namespace is stored verbatim.
C9_NewRemoteEndsInSeparator ==
  ret.op = "NewRemote" =>
    LET arg == ret.path
    IN  /\ ~ret.panicked
        /\ rf.made
        /\ rf.hostpath = IF arg # Empty /\ arg[Len(arg)] = "/"
                         THEN arg ELSE arg \o <<"/">>
        /\ rf.namespace = ret.ns

\* s is an optionally signed string of one or more decimal digits
IsIntText(s) ==
  LET body == IF s # Empty /\ s[1] \in {"+", "-"} THEN SubSeq(s, 2, Len(s)) ELSE s
  IN  /\ body # Empty
      /\ \A i \in 1..Len(body) : IsDigit(body[i])

\* the integer such a string denotes
IntOf(s) ==
  IF s[1] = "-" THEN 0 - DecValue(SubSeq(s, 2, Len(s)))
  ELSE IF s[1] = "+" THEN DecValue(SubSeq(s, 2, Len(s)))
  ELSE DecValue(s)

\* C7: Version() is N when versionId is "<name>.<N>", the text after the last
\* "." being a valid integer, and -1 when there is no "." or that text is not
\* a valid integer (the empty suffix included).
C7_VersionOfVersionID ==
  ret.op = "Version" =>
    LET v == ret.info.VersionID
        dots == {k \in 1..Len(v) : v[k] = "."}
    IN  IF dots = {} THEN ret.version = -1
        ELSE LET k == CHOOSE d \in dots : \A e \in dots : e <= d
                 suffix == SubSeq(v, k + 1, Len(v))
             IN  IF IsIntText(suffix) THEN ret.version = IntOf(suffix)
                 ELSE ret.version = -1

C7_Witness ==
  /\ ret.op = "Version"
  /\ ret.info.VersionID = <<".", ".", "7">>
  /\ ret.version = 7

====
